---- MODULE Spec2Model ----
(***************************************************************************)
(* scripts/check_todos.py: the TODO lint.  check(lines) applies one        *)
(* regular expression to every line; the __main__ block collects the paths *)
(* below each root argument, reads every regular file, prints the lines    *)
(* check reports and exits 1 when any was printed.                         *)
(*                                                                         *)
(* A line is a sequence of one-character strings.  The regular expression  *)
(* is kept as a syntax tree and matched by a small engine, so that the     *)
(* pattern of the source is what decides a match.                          *)
(***************************************************************************)
EXTENDS Integers, Sequences, FiniteSets, TLC

VARIABLES
    lines,      \* check: the argument of check(lines)
    results,    \* check: the list check returns
    cpc,        \* check: "input" before the call, "checked" after it
    files,      \* file system: content of every regular file slot
    rev,        \* file system: whether scandir lists entries in reverse
    gone,       \* file system: regular files removed since the start
    argv,       \* sys.argv[1:]
    ri,         \* __main__: index of the next root argument to walk
    paths,      \* __main__: the list `paths`
    pi,         \* __main__: index of the next element of `paths`
    clean,      \* __main__: the flag `clean`
    out,        \* standard output, one element per print call part
    exit,       \* process exit status (-1 while running)
    pc,         \* __main__: "run", "done" (normal end) or "crashed"
    reads,      \* history: how often each path was opened in this run
    run,        \* which invocation of the program this is (1 or 2)
    prev        \* the first invocation's outcome, kept for the second

vars == <<lines, results, cpc, files, rev, gone, argv, ri, paths, pi, clean,
          out, exit, pc, reads, run, prev>>

checkVars == <<lines, results, cpc>>
scanVars == <<files, rev, gone, argv, ri, paths, pi, clean, out, exit, pc,
              reads, run, prev>>

-----------------------------------------------------------------------------
(* Bounds *)

\* fragments concatenated to form one input line of check
MaxFrags == 4
\* lines in a list handed to check
MaxLines == 3
\* root arguments on the command line
MaxRoots == 2
\* regular files another process removes while the program runs
MaxVanish == 1

-----------------------------------------------------------------------------
(* Regular expressions *)

NL == "\n"

Digits == {"0", "1", "2", "3", "4", "5", "6", "7", "8", "9"}

Lit(s) == [t |-> "lit", s |-> s]
Dot == [t |-> "dot"]
Digit == [t |-> "digit"]
Star(r) == [t |-> "star", r |-> r]
Plus(r) == [t |-> "plus", r |-> r]
Cat(rs) == [t |-> "cat", rs |-> rs]
Alt(rs) == [t |-> "alt", rs |-> rs]
NotAhead(r) == [t |-> "notahead", r |-> r]

RECURSIVE Match(_, _, _)
RECURSIVE MatchSeq(_, _, _, _)
RECURSIVE Closure(_, _, _)

\* the offsets (0 .. Len(w)) at which a match of r that starts at offset p
\* can end; `.` matches every character but the newline
Match(r, w, p) ==
    CASE r.t = "lit" ->
            IF /\ p + Len(r.s) <= Len(w)
               /\ \A k \in 1..Len(r.s) : w[p + k] = r.s[k]
            THEN {p + Len(r.s)} ELSE {}
      [] r.t = "dot" ->
            IF p < Len(w) /\ w[p + 1] # NL THEN {p + 1} ELSE {}
      [] r.t = "digit" ->
            IF p < Len(w) /\ w[p + 1] \in Digits THEN {p + 1} ELSE {}
      [] r.t = "star" -> Closure(r.r, w, {p})
      [] r.t = "plus" -> Closure(r.r, w, Match(r.r, w, p))
      [] r.t = "cat" -> MatchSeq(r.rs, 1, w, {p})
      [] r.t = "alt" -> UNION {Match(r.rs[k], w, p) : k \in 1..Len(r.rs)}
      [] r.t = "notahead" -> IF Match(r.r, w, p) = {} THEN {p} ELSE {}

\* the pieces rs[k], rs[k+1], ... matched one after the other from any of ps
MatchSeq(rs, k, w, ps) ==
    IF k > Len(rs) \/ ps = {} THEN ps
    ELSE MatchSeq(rs, k + 1, w, UNION {Match(rs[k], w, q) : q \in ps})

\* zero or more repetitions of r from any of ps
Closure(r, w, ps) ==
    LET more == ps \cup UNION {Match(r, w, q) : q \in ps}
    IN  IF more = ps THEN ps ELSE Closure(r, w, more)

\* re.search: a match may start at any offset
search(r, w) == \E p \in 0..Len(w) : Match(r, w, p) # {}

\* the pattern with the issue reference required right after the marker
AdjacentPattern ==
    Cat(<<Alt(<<Cat(<<Alt(<<Lit(<<"/", "/">>), Lit(<<"/", "*">>),
                            Lit(<<"/", "/", "/">>), Lit(<<"#">>)>>),
                      Star(Dot), Lit(<<"T", "O", "D", "O">>)>>),
                Lit(<<"t", "o", "d", "o", "!">>)>>),
          NotAhead(Cat(<<Lit(<<"(", "#">>), Plus(Digit), Lit(<<")">>)>>))>>)

\* r"((//|/\*|///|#).*TODO|todo!)(?!.*\(#\d+\))"
Pattern ==
    Cat(<<Alt(<<Cat(<<Alt(<<Lit(<<"/", "/">>), Lit(<<"/", "*">>),
                            Lit(<<"/", "/", "/">>), Lit(<<"#">>)>>),
                      Star(Dot), Lit(<<"T", "O", "D", "O">>)>>),
                Lit(<<"t", "o", "d", "o", "!">>)>>),
          NotAhead(Cat(<<Star(Dot), Lit(<<"(", "#">>), Plus(Digit),
                         Lit(<<")">>)>>))>>)

-----------------------------------------------------------------------------
(* check(lines) *)

RECURSIVE checkLoop(_, _, _)
\* the for loop of check: n is the 1-based position, enumerate's i is n - 1
checkLoop(ls, n, acc) ==
    IF n > Len(ls) THEN acc
    ELSE checkLoop(ls, n + 1,
                   IF search(Pattern, ls[n])
                   THEN Append(acc, <<n - 1, ls[n]>>) ELSE acc)

RECURSIVE checkLoopFromOne(_, _, _)
\* the loop with enumerate counting from 1
checkLoopFromOne(ls, n, acc) ==
    IF n > Len(ls) THEN acc
    ELSE checkLoopFromOne(ls, n + 1,
                          IF search(Pattern, ls[n])
                          THEN Append(acc, <<n, ls[n]>>) ELSE acc)

checkFromOne(ls) == checkLoopFromOne(ls, 1, <<>>)

check(ls) == checkLoop(ls, 1, <<>>)

-----------------------------------------------------------------------------
(* Inputs of check *)

TODO == <<"T", "O", "D", "O">>
TodoBang == <<"t", "o", "d", "o", "!">>

\* the pieces input lines are built from: the comment openers, the two
\* markers, an issue reference, the opening of one, and filler
Fragments ==
    {<<"/", "/">>, <<"/", "*">>, <<"#">>, TODO, TodoBang,
     <<"(", "#", "1", "2", ")">>, <<"(", "#">>, <<" ">>}

RECURSIVE FragLines(_)
\* every concatenation of exactly n fragments
FragLines(n) ==
    IF n = 0 THEN {<<>>}
    ELSE {w \o f : w \in FragLines(n - 1), f \in Fragments}

\* one line as readlines returns it: the text and its newline
InputLines == {w \o <<NL>> : w \in UNION {FragLines(n) : n \in 0..MaxFrags}}

\* a flagged comment, a tracked one, a flagged macro without a final
\* newline (the last line of a file), and a line with nothing in it
SampleLines ==
    {<<"/", "/", " ">> \o TODO \o <<NL>>,
     <<"#", " ">> \o TODO \o <<" ", "(", "#", "1", ")", NL>>,
     TodoBang,
     <<" ", NL>>}

RECURSIVE ListsOver(_, _)
\* every list of at most n elements of S
ListsOver(S, n) ==
    IF n = 0 THEN {<<>>}
    ELSE LET shorter == ListsOver(S, n - 1)
         IN  shorter \cup {Append(l, x) : l \in shorter, x \in S}

\* one-line lists of every input line, and short lists of the sample lines
CheckInputs == {<<w>> : w \in InputLines} \cup ListsOver(SampleLines, MaxLines)

-----------------------------------------------------------------------------
(* The call of check as a state machine *)

ScanIdle ==
    /\ files = <<>> /\ rev = FALSE /\ gone = {} /\ argv = <<>> /\ ri = 1
    /\ paths = <<>> /\ pi = 1 /\ clean = TRUE /\ out = <<>> /\ exit = -1
    /\ pc = "idle" /\ reads = <<>> /\ run = 1 /\ prev = <<>>

InitCheck ==
    /\ lines \in CheckInputs
    /\ results = <<>>
    /\ cpc = "input"
    /\ ScanIdle

CallCheck ==
    /\ cpc = "input"
    /\ results' = check(lines)
    /\ cpc' = "checked"
    /\ UNCHANGED <<lines>>
    /\ UNCHANGED scanVars

NextCheck == CallCheck

SpecCheck == InitCheck /\ [][NextCheck]_vars

-----------------------------------------------------------------------------
(* The file system *)

\* the tree below the working directory: ./f, ./d/a and ./d/s/b
Dirs == {".", "d", "d/s"}
Files == {"f", "d/a", "d/s/b"}
Paths == Dirs \cup Files

\* the entries of a directory in the order the directory holds them
Entries(dir) ==
    CASE dir = "." -> <<"d", "f">>
      [] dir = "d" -> <<"d/a", "d/s">>
      [] dir = "d/s" -> <<"d/s/b">>

\* a file whose only line is a tracked TODO
Tracked == <<<<"#", " ">> \o TODO \o <<" ", "(", "#", "1", ")", NL>>>>

\* a file with a flagged comment, an empty line and a flagged macro
Flagged == <<<<"/", "/", " ">> \o TODO \o <<NL>>, <<" ", NL>>, TodoBang>>

\* a regular file: its lines, and the line that holds its first byte that is
\* not valid text (0: none)
FileStates ==
    {[lines |-> Tracked, bad |-> 0], [lines |-> Flagged, bad |-> 0],
     [lines |-> Flagged, bad |-> 3]}

Reverse(s) == [k \in 1..Len(s) |-> s[Len(s) + 1 - k]]

RECURSIVE Flatten(_)
Flatten(ss) == IF ss = <<>> THEN <<>> ELSE Head(ss) \o Flatten(Tail(ss))

Exists(p) == p \in Dirs \/ (p \in Files /\ p \notin gone)

\* os.scandir with the entries listed backwards by the second invocation
scandirUnstable(dir) ==
    LET there == SelectSeq(Entries(dir), Exists)
    IN  IF rev # (run = 2) THEN Reverse(there) ELSE there

\* os.scandir: the entries that exist, in the file system's own order
scandir(dir) ==
    LET there == SelectSeq(Entries(dir), Exists)
    IN  IF rev THEN Reverse(there) ELSE there

is_dir(p) == p \in Dirs

\* Path.is_file: false for a directory and for a path that no longer exists
is_file(p) == p \in Files /\ p \notin gone

RECURSIVE Walk(_)
\* the entries of dir, then the walk of each of its subdirectories
Walk(dir) ==
    LET es == scandir(dir)
    IN  es \o Flatten([k \in 1..Len(es) |->
                          IF is_dir(es[k]) THEN Walk(es[k]) ELSE <<>>])

\* rglob that yields the root itself when the root is a regular file
rglobWithRoot(root) ==
    IF is_dir(root) THEN Walk(root)
    ELSE IF is_file(root) THEN <<root>> ELSE <<>>

\* pathlib.Path(root).rglob("*"): nothing unless root is a directory, and
\* never root itself
rglob(root) == IF is_dir(root) THEN Walk(root) ELSE <<>>

-----------------------------------------------------------------------------
(* __main__ *)

\* the roots with the working directory as the default
rootsDefaultCwd == IF argv = <<>> THEN <<".">> ELSE argv

\* sys.argv[1:]
roots == argv

\* paths.extend at the front
extendFront(ps, new) == new \o ps

\* paths.extend(new)
extend(ps, new) == ps \o new

\* the flag following the last file only
cleanLastFile(c, found) == found = <<>>

\* `if clean: clean = False` for every reported line
cleanAfter(c, found) == c /\ found = <<>>

\* the lines a lazy read reports before it meets the undecodable bytes
reportedBeforeErrorLazy(file) == check(SubSeq(file.lines, 1, file.bad - 1))

\* what the loop over check(lines) has reported when readlines raises
\* UnicodeDecodeError: readlines decodes the whole file before check is called
reportedBeforeError(file) == <<>>

\* print(f"[{path}:{i}] {line}", end="") for every element of found; `at` is
\* the position in `paths` the loop is at (history)
Printed(p, at, found) ==
    [k \in 1..Len(found) |->
        [kind |-> "finding", path |-> p, i |-> found[k][1],
         line |-> found[k][2], at |-> at]]

\* print("\nYour code has TODOs ..."): an empty line, then the message
Message ==
    <<[kind |-> "blank", path |-> "", i |-> 0, line |-> <<>>, at |-> 0],
      [kind |-> "message", path |-> "", i |-> 0, line |-> <<>>, at |-> 0]>>

RootArgs == {"d", "d/s", "f"}

Init ==
    /\ lines = <<>> /\ results = <<>> /\ cpc = "idle"
    /\ files \in [Files -> FileStates]
    /\ rev \in BOOLEAN
    /\ gone = {}
    /\ argv \in ListsOver(RootArgs, MaxRoots)
    /\ ri = 1
    /\ paths = <<>>
    /\ pi = 1
    /\ clean = TRUE
    /\ out = <<>>
    /\ exit = -1
    /\ pc = "run"
    /\ reads = [p \in Paths |-> 0]
    /\ run = 1
    /\ prev = <<>>

Walking == pc = "run" /\ ri <= Len(roots)
Scanning == pc = "run" /\ ri > Len(roots) /\ pi <= Len(paths)
Finishing == pc = "run" /\ ri > Len(roots) /\ pi > Len(paths)

\* one round of `for directory in sys.argv[1:]`
Extend ==
    /\ Walking
    /\ paths' = extend(paths, rglob(roots[ri]))
    /\ ri' = ri + 1
    /\ UNCHANGED <<files, rev, gone, argv, pi, clean, out, exit, pc, reads,
                   run, prev>>
    /\ UNCHANGED checkVars

\* `if path.is_file()` is false
SkipNonFile ==
    /\ Scanning
    /\ ~is_file(paths[pi])
    /\ pi' = pi + 1
    /\ UNCHANGED <<files, rev, gone, argv, ri, paths, clean, out, exit, pc,
                   reads, run, prev>>
    /\ UNCHANGED checkVars

\* open raises (PermissionError): the exception leaves the program
OpenFails ==
    /\ Scanning
    /\ is_file(paths[pi])
    /\ pc' = "crashed"
    /\ exit' = 1
    /\ UNCHANGED <<files, rev, gone, argv, ri, paths, pi, clean, out, reads,
                   run, prev>>
    /\ UNCHANGED checkVars

\* readlines raises UnicodeDecodeError: `continue`
SkipUndecodable ==
    /\ Scanning
    /\ is_file(paths[pi])
    /\ files[paths[pi]].bad # 0
    /\ LET found == reportedBeforeError(files[paths[pi]])
       IN  /\ out' = out \o Printed(paths[pi], pi, found)
           /\ clean' = cleanAfter(clean, found)
    /\ reads' = [reads EXCEPT ![paths[pi]] = @ + 1]
    /\ pi' = pi + 1
    /\ UNCHANGED <<files, rev, gone, argv, ri, paths, exit, pc, run, prev>>
    /\ UNCHANGED checkVars

\* the file is read and every line check reports is printed
ScanFile ==
    /\ Scanning
    /\ is_file(paths[pi])
    /\ files[paths[pi]].bad = 0
    /\ LET found == check(files[paths[pi]].lines)
       IN  /\ out' = out \o Printed(paths[pi], pi, found)
           /\ clean' = cleanAfter(clean, found)
    /\ reads' = [reads EXCEPT ![paths[pi]] = @ + 1]
    /\ pi' = pi + 1
    /\ UNCHANGED <<files, rev, gone, argv, ri, paths, exit, pc, run, prev>>
    /\ UNCHANGED checkVars

\* `if not clean`: the message and exit(1)
ReportAndFail ==
    /\ Finishing
    /\ ~clean
    /\ out' = out \o Message
    /\ exit' = 1
    /\ pc' = "done"
    /\ UNCHANGED <<files, rev, gone, argv, ri, paths, pi, clean, reads, run,
                   prev>>
    /\ UNCHANGED checkVars

\* the script ends: status 0
ExitClean ==
    /\ Finishing
    /\ clean
    /\ exit' = 0
    /\ pc' = "done"
    /\ UNCHANGED <<files, rev, gone, argv, ri, paths, pi, clean, out, reads,
                   run, prev>>
    /\ UNCHANGED checkVars

\* another process removes a regular file that `paths` lists and the loop
\* has not reached yet
Vanish ==
    /\ Scanning
    /\ Cardinality(gone) < MaxVanish
    /\ \E k \in pi..Len(paths) :
          /\ paths[k] \in Files \ gone
          /\ gone' = gone \cup {paths[k]}
    /\ UNCHANGED <<files, rev, argv, ri, paths, pi, clean, out, exit, pc,
                   reads, run, prev>>
    /\ UNCHANGED checkVars

Next ==
    \/ Extend
    \/ SkipNonFile
    \/ OpenFails
    \/ SkipUndecodable
    \/ ScanFile
    \/ ReportAndFail
    \/ ExitClean
    \/ Vanish

Spec == Init /\ [][Next]_vars

\* the program is started again with the same arguments
Restart ==
    /\ run = 1
    /\ pc = "done"
    /\ prev' = [pc |-> pc, out |-> out, exit |-> exit, gone |-> gone]
    /\ run' = 2
    /\ ri' = 1
    /\ paths' = <<>>
    /\ pi' = 1
    /\ clean' = TRUE
    /\ out' = <<>>
    /\ exit' = -1
    /\ pc' = "run"
    /\ reads' = [p \in Paths |-> 0]
    /\ UNCHANGED <<files, rev, gone, argv>>
    /\ UNCHANGED checkVars

NextRerun == Next \/ Restart

SpecRerun == Init /\ [][NextRerun]_vars

-----------------------------------------------------------------------------
(* The detection rule, stated on the text of a line *)

\* the characters of w from offset p on begin with s
At(w, p, s) == p >= 0 /\ p + Len(s) <= Len(w) /\ SubSeq(w, p + 1, p + Len(s)) = s

Openers == {<<"/", "/">>, <<"/", "*">>, <<"/", "/", "/">>, <<"#">>}

\* no line break between offsets p and q
SameLine(w, p, q) == \A k \in (p + 1)..q : w[k] # NL

\* the offsets right after a marker: a TODO with a comment opener before it
\* on the line, or a todo!
MarkerEnds(w) ==
    {e \in 0..Len(w) :
        \/ At(w, e - 5, TodoBang)
        \/ /\ At(w, e - 4, TODO)
           /\ \E o \in Openers : \E p \in 0..(e - 4) :
                 /\ p + Len(o) <= e - 4
                 /\ At(w, p, o)
                 /\ SameLine(w, p, e)}

\* the offsets at which a well-formed issue reference (#<digits>) begins
RefStarts(w) ==
    {r \in 0..Len(w) :
        /\ At(w, r, <<"(", "#">>)
        /\ \E n \in 1..Len(w) :
              /\ r + 2 + n < Len(w)
              /\ \A k \in 1..n : w[r + 2 + k] \in Digits
              /\ w[r + 2 + n + 1] = ")"}

\* a reference begins at or after offset e, on the same line
RefAfter(w, e) == \E r \in RefStarts(w) : r >= e /\ SameLine(w, e, r)

\* w has a marker with no issue reference later in the line
Disallowed(w) == \E e \in MarkerEnds(w) : ~RefAfter(w, e)

Reported(n) == \E k \in DOMAIN results : results[k][1] = n

Max(S) == CHOOSE x \in S : \A y \in S : y <= x

-----------------------------------------------------------------------------
(* Claims about check, under SpecCheck *)

\* C1: check(lines) holds (i, lines[i]) exactly for the lines that match the
\* marker pattern and have no issue reference later than the marker, and
\* holds nothing else
C1_CheckReportsExactlyDisallowed ==
    cpc = "checked" =>
        /\ \A n \in 1..Len(lines) :
              Disallowed(lines[n]) <=>
                 \E k \in DOMAIN results : results[k] = <<n - 1, lines[n]>>
        /\ \A k \in DOMAIN results :
              \E n \in 1..Len(lines) :
                 results[k] = <<n - 1, lines[n]>> /\ Disallowed(lines[n])

\* check has reported the third of three lines and passed over a line whose
\* marker is followed by an issue reference
C1_Witness ==
    /\ cpc = "checked"
    /\ Len(lines) = 3
    /\ Reported(2)
    /\ \E n \in 1..Len(lines) :
          /\ MarkerEnds(lines[n]) # {}
          /\ ~Disallowed(lines[n])
          /\ ~Reported(n - 1)

\* C9: a reference suppresses a marker only when it comes later in the line:
\* a line is reported exactly when its last marker has no reference at or
\* after its end, so references that all precede a marker never suppress and
\* a reference after every marker always does, adjacent or not
C9_ReferenceMustFollowMarker ==
    cpc = "checked" =>
        \A n \in 1..Len(lines) :
            LET w == lines[n]
                M == MarkerEnds(w)
                R == RefStarts(w)
            IN  /\ Reported(n - 1) <=> (M # {} /\ \A r \in R : r < Max(M))
                /\ (M # {} /\ \E e \in M : \A r \in R : r < e)
                      => Reported(n - 1)
                /\ (\E r \in R : \A e \in M : e <= r) => ~Reported(n - 1)

\* a reported line with two markers and a reference between them, as in
\* // TODO (#1) TODO
C9_Witness ==
    /\ cpc = "checked"
    /\ Reported(0)
    /\ \E e1, e2 \in MarkerEnds(lines[1]) : \E r \in RefStarts(lines[1]) :
          e1 <= r /\ r < e2

\* a line that is not reported because a reference follows its marker
\* without being adjacent to it
C9_WitnessSuppressed ==
    /\ cpc = "checked"
    /\ Len(lines) = 1
    /\ ~Reported(0)
    /\ \E e \in MarkerEnds(lines[1]) : \E r \in RefStarts(lines[1]) : e < r

-----------------------------------------------------------------------------
(* Claims about a run of the program, under Spec *)

IsFinding(e) == e.kind = "finding"

FindingsAt(k) == SelectSeq(out, LAMBDA e : IsFinding(e) /\ e.at = k)

\* what check returns for each file content of the model
checkOf == [c \in {Tracked, Flagged} |-> check(c)]

HasDisallowedLine(p) ==
    \E n \in 1..Len(files[p].lines) : Disallowed(files[p].lines[n])

Range(s) == {s[k] : k \in DOMAIN s}

\* the directory that lists p
Parent(p) == CHOOSE d \in Dirs : p \in Range(Entries(d))

RECURSIVE Below(_, _)
\* p lies at some depth below the directory d
Below(p, d) ==
    /\ p # "."
    /\ (Parent(p) = d \/ Below(Parent(p), d))

BelowDirRoot(p) == \E k \in DOMAIN argv : argv[k] \in Dirs /\ Below(p, argv[k])

\* C2: a run that ends normally exits 1 exactly when a Finding was printed;
\* then the message was printed once, after every Finding; it exits 0
\* otherwise, having printed nothing
C2_ExitStatusFollowsFindings ==
    pc = "done" =>
        LET n == Len(out)
            F == {k \in 1..n : IsFinding(out[k])}
        IN  /\ exit \in {0, 1}
            /\ exit = 1 <=> F # {}
            /\ exit = 1 =>
                  /\ Cardinality({k \in 1..n : out[k].kind = "message"}) = 1
                  /\ out[n].kind = "message"
                  /\ out[n - 1].kind = "blank"
                  /\ F = 1..(n - 2)
            /\ exit = 0 => out = <<>>

\* a run that printed Findings of two files, then the message, and exited 1
C2_Witness ==
    /\ pc = "done"
    /\ exit = 1
    /\ \E a, b \in DOMAIN out :
          IsFinding(out[a]) /\ IsFinding(out[b]) /\ out[a].path # out[b].path

\* a run over files that was clean and exited 0
C2_WitnessClean ==
    /\ pc = "done"
    /\ exit = 0
    /\ \E p \in Files : reads[p] > 0

\* C3: a file that fails to decode prints nothing and leaves the flag alone,
\* whatever its lines hold; every other regular file handled so far has
\* printed exactly what check reports for it, and the exit status follows
\* from those Findings alone
C3_UndecodableFileContributesNothing ==
    pc \in {"run", "done"} =>
        /\ \A k \in 1..(pi - 1) :
              LET p == paths[k]
              IN  /\ (p \in Files /\ files[p].bad # 0) => FindingsAt(k) = <<>>
                  /\ (p \in Files \ gone /\ files[p].bad = 0) =>
                        FindingsAt(k) = Printed(p, k, checkOf[files[p].lines])
        /\ \A k \in DOMAIN out : IsFinding(out[k]) => files[out[k].path].bad = 0
        /\ clean <=> \A k \in DOMAIN out : ~IsFinding(out[k])
        /\ pc = "done" => exit = (IF clean THEN 0 ELSE 1)

\* a finished run that skipped a file with a flagged line before its
\* undecodable bytes and afterwards printed the Findings of another file
C3_Witness ==
    /\ pc = "done"
    /\ \E k \in DOMAIN paths :
          /\ paths[k] \in Files
          /\ reads[paths[k]] > 0
          /\ files[paths[k]].bad = 3
          /\ Disallowed(files[paths[k]].lines[1])
          /\ \E a \in DOMAIN out : IsFinding(out[a]) /\ out[a].at > k

\* a finished run whose only opened file failed to decode: status 0, no output
C3_WitnessBinaryOnly ==
    /\ pc = "done"
    /\ exit = 0
    /\ out = <<>>
    /\ \E p \in Files : reads[p] > 0 /\ files[p].bad # 0

C6_NoArgumentsScansWorkingDirectory ==
    (pc = "done" /\ argv = <<>> /\ gone = {}) =>
        \A p \in Files :
            (files[p].bad = 0 /\ HasDisallowedLine(p)) =>
                /\ exit = 1
                /\ \E a \in DOMAIN out : IsFinding(out[a]) /\ out[a].path = p

\* C6 amended: without arguments nothing is walked, opened or printed and the
\* status is 0
C6_NoArgumentsScansNothing ==
    (pc = "done" /\ argv = <<>>) =>
        /\ paths = <<>>
        /\ out = <<>>
        /\ exit = 0
        /\ \A p \in Paths : reads[p] = 0

\* a finished run without arguments, with a flagged file in the tree
C6_Witness ==
    /\ pc = "done"
    /\ argv = <<>>
    /\ \E p \in Files : files[p].bad = 0 /\ HasDisallowedLine(p)

C8_OnlyDecodeFailuresAreSkipped ==
    pc = "done" =>
        \A k \in DOMAIN paths : paths[k] \in Files => reads[paths[k]] > 0

\* C10 as stated: no file is opened twice in one run and no line is reported
\* twice
C10_EveryFileReadAtMostOnce ==
    /\ \A p \in Paths : reads[p] <= 1
    /\ \A a, b \in DOMAIN out :
          (IsFinding(out[a]) /\ IsFinding(out[b])
              /\ out[a].path = out[b].path /\ out[a].i = out[b].i) => a = b

-----------------------------------------------------------------------------
(* Claims about two runs, under SpecRerun *)

====
